---- MODULE Spec2Model ----
(***************************************************************************)
(* Model of patriacaelum/expense-report: the CategoryManager (persisted    *)
(* expense store, fuzzy lookup, interactive prompts, running mean), the    *)
(* ExpenseReport pipeline that feeds CSV rows to it, the main loop that    *)
(* creates one ExpenseReport per CSV file, and the TexGenerator table      *)
(* renderer.                                                               *)
(*                                                                         *)
(* A Python dict is an insertion-ordered sequence of entries.  Prices are  *)
(* counted in cents and the mean is an exact fraction [n, d].  A line of   *)
(* table text is a sequence of tokens.                                     *)
(***************************************************************************)
EXTENDS Integers, Sequences, FiniteSets, TLC

\* ------------------------------------------------------------- bounds ----
MaxRows == 2      \* CSV rows read over one process run
MaxFiles == 2     \* CSV files named on the command line
MaxItems == 3     \* classified line items handed to the table renderer

\* ---------------------------------------------------- program constants --
MaxMatches == 3   \* difflib.get_close_matches default n
CutoffPermille == 600   \* difflib.get_close_matches default cutoff, 0.6
LastColumn == 5   \* the table's last column, "{c}-5"
FirstColumn == 1  \* _generate_table's default c
MarkerChars == 5  \* rows[...][:-5], the length of "{c-5}"

\* ------------------------------------------------------------- inputs ----
RawNames == {"Banana", "bananas", "banan", "quinoa"}
PriceTexts == {"1.00", "1.20", "abc"}
DateTexts == {"", "01/02"}
CsvRows == [Expense : RawNames, Price : PriceTexts, Date : DateTexts]
NumInputs == {"0", "1", "2", "3", "x"}
TextInputs == {"Fruit", "produce"}
Inputs == NumInputs \cup TextInputs
NoFile == [exists |-> FALSE, json |-> <<>>]

\* ---------------------------------------------------------- conversions --
\* str.lower() on the strings of the model
Lower(s) ==
  CASE s = "Banana" -> "banana"
    [] s = "Fruit" -> "fruit"
    [] OTHER -> s

\* str.title() on the strings of the model
Title(s) ==
  CASE s = "banana" -> "Banana"
    [] s = "bananas" -> "Bananas"
    [] s = "banan" -> "Banan"
    [] s = "quinoa" -> "Quinoa"
    [] s = "food" -> "Food"
    [] s = "fruit" -> "Fruit"
    [] s = "dairy" -> "Dairy"
    [] s = "produce" -> "Produce"
    [] s = "apple" -> "Apple"
    [] s = "milk" -> "Milk"
    [] s = "cheese" -> "Cheese"
    [] s = "soap" -> "Soap"
    [] s = "home" -> "Home"
    [] s = "cleaning" -> "Cleaning"
    [] OTHER -> s

\* float(row['Price']): raises ValueError on text that is no number
IsFloat(s) == s \in {"1.00", "1.20"}

Float(s) ==
  CASE s = "1.00" -> 100
    [] s = "1.20" -> 120
    [] OTHER -> 0

\* int(choice): raises ValueError on text that is no integer
IsInt(s) == s \in {"0", "1", "2", "3"}

ToInt(s) ==
  CASE s = "0" -> 0
    [] s = "1" -> 1
    [] s = "2" -> 2
    [] s = "3" -> 3
    [] OTHER -> 0

\* the order sorted() gives the category and subcategory names of the model
StrOrder == <<"food", "fruit", "produce">>

Rank(s) == CHOOSE i \in DOMAIN StrOrder : StrOrder[i] = s

\* ------------------------------------------------------- exact fractions --
RECURSIVE Gcd(_, _)
Gcd(a, b) == IF b = 0 THEN a ELSE Gcd(b, a % b)

Frac(n, d) == LET g == Gcd(n, d) IN [n |-> n \div g, d |-> d \div g]

\* ------------------------------------------------------------- dicts -----
Keys(d) == {d[i].k : i \in DOMAIN d}

Has(d, k) == \E i \in DOMAIN d : d[i].k = k

Get(d, k) == d[CHOOSE i \in DOMAIN d : d[i].k = k].v

Put(d, k, v) ==
  IF Has(d, k)
  THEN [i \in DOMAIN d |-> IF d[i].k = k THEN [k |-> k, v |-> v] ELSE d[i]]
  ELSE Append(d, [k |-> k, v |-> v])

InList(x, s) == \E i \in DOMAIN s : s[i] = x

RECURSIVE SetToSeq(_)
SetToSeq(S) ==
  IF S = {} THEN <<>>
  ELSE LET x == CHOOSE y \in S : TRUE IN <<x>> \o SetToSeq(S \ {x})

RECURSIVE InsertSorted(_, _)
InsertSorted(x, s) ==
  IF s = <<>> THEN <<x>>
  ELSE IF Rank(x) <= Rank(Head(s)) THEN <<x>> \o s
  ELSE <<Head(s)>> \o InsertSorted(x, Tail(s))

\* sorted(list): ascending string order
RECURSIVE Sorted(_)
Sorted(s) == IF s = <<>> THEN <<>> ELSE InsertSorted(Head(s), Sorted(Tail(s)))

\* ------------------------------------------------- CategoryManager -------
\* json.dump(self.expenses, file): one JSON member per entry, the record as
\* the object's members in the order cat, subcat, mean, npurchases
Dump(exp) ==
  [exists |-> TRUE,
   json |-> [i \in DOMAIN exp |->
               <<exp[i].k, exp[i].v.cat, exp[i].v.subcat,
                 exp[i].v.mean, exp[i].v.npurchases>>]]

\* __init__, lines 32-40: the mapping parsed from the file, empty when the
\* file is not found
Load(f) ==
  IF ~f.exists THEN <<>>
  ELSE [i \in DOMAIN f.json |->
          [k |-> f.json[i][1],
           v |-> [cat |-> f.json[i][2], subcat |-> f.json[i][3],
                  mean |-> f.json[i][4], npurchases |-> f.json[i][5]]]]

\* __init__, lines 44-52: the lookup table category -> list of subcategories
RECURSIVE BuildCats(_, _)
BuildCats(exp, acc) ==
  IF exp = <<>> THEN acc
  ELSE LET c == Head(exp).v.cat
           s == Head(exp).v.subcat
           nxt == IF c \notin DOMAIN acc
                  THEN [x \in DOMAIN acc \cup {c} |->
                          IF x = c THEN <<s>> ELSE acc[x]]
                  ELSE IF ~InList(s, acc[c])
                  THEN [acc EXCEPT ![c] = Append(@, s)]
                  ELSE acc
       IN BuildCats(Tail(exp), nxt)

NoCats == [x \in {} |-> <<>>]

\* __del__, lines 56-58: the file after the manager is released
DelSkipEmpty(exp, f) == IF exp = <<>> THEN f ELSE Dump(exp)

Del(exp, f) == Dump(exp)

\* an exception nothing catches (main.py has no try): the interpreter exits
\* and releases the manager, whose __del__ writes the file
RaiseNoFlush(exp, f) == f

Raise(exp, f) == Del(exp, f)

\* update, lines 148-152 (the key is present)
UpdateHalf(exp, e, p) ==
  LET r == Get(exp, e)
  IN Put(exp, e, [r EXCEPT !.mean = Frac(r.mean.n + p * r.mean.d, 2 * r.mean.d),
                           !.npurchases = r.npurchases + 1])

Update(exp, e, p) ==
  LET r == Get(exp, e)
      m == r.mean
      N == r.npurchases
  IN Put(exp, e, [r EXCEPT !.mean = Frac(N * m.n + p * m.d, m.d * (N + 1)),
                           !.npurchases = N + 1])

\* difflib ratio of two expense names, in thousandths
Ratio(x, w) ==
  IF x = w THEN 1000
  ELSE LET p == {x, w}
       IN CASE p = {"banan", "banana"} -> 909
            [] p = {"banan", "bananas"} -> 833
            [] p = {"banana", "bananas"} -> 923
            [] p = {"banan", "quinoa"} -> 363
            [] p = {"banana", "quinoa"} -> 333
            [] p = {"bananas", "quinoa"} -> 307
            [] OTHER -> 0

NameOrder == <<"banan", "banana", "bananas", "quinoa">>

NameRank(s) == CHOOSE i \in DOMAIN NameOrder : NameOrder[i] = s

\* (score, name) tuple order of heapq.nlargest: a is ahead of b
Ahead(a, b, w) ==
  \/ Ratio(a, w) > Ratio(b, w)
  \/ Ratio(a, w) = Ratio(b, w) /\ NameRank(a) > NameRank(b)

\* get_close_matches(expense, self.expenses.keys()), line 109
GetCloseMatches(w, keys) ==
  LET close == {x \in keys : Ratio(x, w) >= CutoffPermille}
      pos(x) == 1 + Cardinality({y \in close : Ahead(y, x, w)})
      n == IF Cardinality(close) < MaxMatches THEN Cardinality(close)
           ELSE MaxMatches
  IN [i \in 1..n |-> CHOOSE x \in close : pos(x) = i]

\* _get_input, lines 175-180: every category and subcategory name
Names(cs) ==
  DOMAIN cs \cup UNION {{cs[c][i] : i \in DOMAIN cs[c]} : c \in DOMAIN cs}

\* add, lines 79-84: the new record
AddRecordSwapped(exp, e, c, s, p) ==
  Put(exp, e, [cat |-> s, subcat |-> c, mean |-> Frac(p, 1), npurchases |-> 1])

AddRecord(exp, e, c, s, p) ==
  Put(exp, e, [cat |-> c, subcat |-> s, mean |-> Frac(p, 1), npurchases |-> 1])

\* add, lines 86-90: the lookup table after the new record
AddCats(cs, c, s) ==
  LET withCat == IF c \notin DOMAIN cs
                 THEN [x \in DOMAIN cs \cup {c} |->
                         IF x = c THEN <<>> ELSE cs[x]]
                 ELSE cs
  IN IF ~InList(s, withCat[c])
     THEN [withCat EXCEPT ![c] = Append(@, s)]
     ELSE withCat

\* _get_input, lines 169-209: one pass of the loop on the response s;
\* n is the loop's nchoices, chs its choices
GetInputStepAnyName(s, chs, n, cs) ==
  IF n = 0 THEN [valid |-> TRUE, choice |-> Lower(s), n |-> 0]
  ELSE IF ~IsInt(s) THEN [valid |-> FALSE, choice |-> "", n |-> n]
  ELSE IF ToInt(s) = n + 1 THEN [valid |-> FALSE, choice |-> "", n |-> 0]
  ELSE IF 1 <= ToInt(s) /\ ToInt(s) <= n
  THEN [valid |-> TRUE, choice |-> chs[ToInt(s)], n |-> n]
  ELSE [valid |-> FALSE, choice |-> "", n |-> n]

GetInputStep(s, chs, n, cs) ==
  IF n = 0
  THEN IF Lower(s) \notin Names(cs)
       THEN [valid |-> TRUE, choice |-> Lower(s), n |-> 0]
       ELSE [valid |-> FALSE, choice |-> "", n |-> 0]
  ELSE IF ~IsInt(s) THEN [valid |-> FALSE, choice |-> "", n |-> n]
  ELSE IF ToInt(s) = n + 1 THEN [valid |-> FALSE, choice |-> "", n |-> 0]
  ELSE IF 1 <= ToInt(s) /\ ToInt(s) <= n
  THEN [valid |-> TRUE, choice |-> chs[ToInt(s)], n |-> n]
  ELSE [valid |-> FALSE, choice |-> "", n |-> n]

\* query, lines 124-133: whether the response ends the loop
QueryValidNoUpper(s, nmatches) == IsInt(s) /\ 1 <= ToInt(s)

QueryValid(s, nmatches) ==
  IsInt(s) /\ 1 <= ToInt(s) /\ ToInt(s) <= nmatches + 1

\* --------------------------------------------------------------- state ---
VARIABLES
  file,      \* cats.json: [exists, json]
  fileSeen,  \* history: per name, the count and sum of the prices behind file
  alive,     \* main's expo is bound: an ExpenseReport and its manager exist
  expenses,  \* CategoryManager.expenses
  cats,      \* CategoryManager.cats
  seen,      \* history: per name, the count and sum of the prices behind expenses
  items,     \* ExpenseReport.expenses, the classified line items
  date,      \* _categorize_expenses: the date carried from row to row
  pc,        \* where the process stands
  expense,   \* the row's expense name while a prompt is open
  price,     \* the row's price while a prompt is open
  matches,   \* query: the near matches offered
  choices,   \* _get_input: the choices offered
  nchoices,  \* _get_input: nchoices
  cat,       \* add: the category answered
  resp,      \* the line the last step read by input(), "" when it read none
  nfiles,    \* files main has started on
  nrows,     \* CSV rows read
  fresh,     \* history: cats.json was absent when the process started
  ledger,    \* history: per name, the record its last add or update left in
             \* any manager's expenses, from the cats.json of the start on
  tdata,     \* add_table: the nested mapping
  rows       \* add_table: the rows of text

vars == <<file, fileSeen, alive, expenses, cats, seen, items, date, pc, expense,
          price, matches, choices, nchoices, cat, resp, nfiles, nrows, fresh,
          ledger,
          tdata, rows>>

LowerNames == {Lower(x) : x \in RawNames}

NoneSeen == [x \in LowerNames |-> [n |-> 0, sum |-> 0]]

\* a cats.json an earlier run left: "banana" bought once for 1.00
BananaStore ==
  <<[k |-> "banana",
     v |-> [cat |-> "food", subcat |-> "produce", mean |-> Frac(100, 1),
            npurchases |-> 1]]>>

BananaSeen == [NoneSeen EXCEPT !["banana"] = [n |-> 1, sum |-> 100]]

Idle ==
  /\ alive = FALSE
  /\ expenses = <<>>
  /\ cats = NoCats
  /\ seen = NoneSeen
  /\ items = <<>>
  /\ date = ""
  /\ expense = ""
  /\ price = 0
  /\ matches = <<>>
  /\ choices = <<>>
  /\ nchoices = 0
  /\ cat = ""
  /\ resp = ""
  /\ nfiles = 0
  /\ nrows = 0
  /\ tdata = <<>>
  /\ rows = <<>>

Init ==
  /\ \/ file = NoFile /\ fileSeen = NoneSeen
     \/ file = Dump(BananaStore) /\ fileSeen = BananaSeen
  /\ fresh = ~file.exists
  /\ ledger = Load(file)
  /\ pc = "main"
  /\ Idle

\* the locals of a finished prompt
ClosePrompt ==
  /\ expense' = ""
  /\ price' = 0
  /\ matches' = <<>>
  /\ choices' = <<>>
  /\ nchoices' = 0
  /\ cat' = ""

\* the process ends on an exception raised while the rows are classified
Crash ==
  /\ pc' = "error"
  /\ file' = Raise(expenses, file)
  /\ fileSeen' = IF file' = file THEN fileSeen ELSE seen
  /\ alive' = FALSE
  /\ ClosePrompt
  /\ UNCHANGED <<expenses, cats, seen, items, nfiles, fresh, ledger, tdata,
                 rows>>

\* _categorize_expenses, line 62: the row's line item
Item(d, q, e, p) ==
  [date |-> d, cat |-> q.cat, subcat |-> q.subcat, expense |-> e, price |-> p]

\* add, lines 66-70: the category prompt opens
OpenAdd(e, p) ==
  /\ pc' = "category"
  /\ expense' = e
  /\ price' = p
  /\ matches' = <<>>
  /\ choices' = Sorted(SetToSeq(DOMAIN cats))
  /\ nchoices' = Cardinality(DOMAIN cats)
  /\ cat' = ""
  /\ UNCHANGED <<file, fileSeen, alive, expenses, cats, seen, items, nfiles,
                 fresh, ledger, tdata, rows>>

\* main, lines 59-60: expo = ExpenseReport(filename). The new manager loads
\* cats.json; binding expo then releases the previous ExpenseReport, whose
\* manager writes cats.json. generate_report goes on to the first row.
MainNextFile ==
  /\ pc = "main"
  /\ nfiles < MaxFiles
  /\ nfiles' = nfiles + 1
  /\ expenses' = Load(file)
  /\ cats' = BuildCats(Load(file), NoCats)
  /\ seen' = fileSeen
  /\ file' = IF alive THEN Del(expenses, file) ELSE file
  /\ fileSeen' = IF alive THEN seen ELSE fileSeen
  /\ alive' = TRUE
  /\ items' = <<>>
  /\ date' = ""
  /\ pc' = "rows"
  /\ resp' = ""
  /\ tdata' = <<>>
  /\ rows' = <<>>
  /\ UNCHANGED <<expense, price, matches, choices, nchoices, cat, nrows, fresh,
                 ledger>>

\* main returns after the last file: the interpreter exits and releases the
\* last ExpenseReport, whose manager writes cats.json
MainExit ==
  /\ pc = "main"
  /\ pc' = "exit"
  /\ file' = IF alive THEN Del(expenses, file) ELSE file
  /\ fileSeen' = IF alive THEN seen ELSE fileSeen
  /\ alive' = FALSE
  /\ resp' = ""
  /\ UNCHANGED <<expenses, cats, seen, items, date, expense, price, matches,
                 choices, nchoices, cat, nfiles, nrows, fresh, ledger, tdata,
                 rows>>

\* _categorize_expenses, lines 46-68, on the next row of the CSV file, up to
\* the first prompt
ReadRow(row) ==
  /\ pc = "rows"
  /\ nrows < MaxRows
  /\ nrows' = nrows + 1
  /\ resp' = ""
  /\ LET e == Lower(row.Expense)
         p == Float(row.Price)
         d == IF row.Date # "" THEN row.Date ELSE date
         w == Lower(e)
         near == GetCloseMatches(w, Keys(expenses))
     IN IF ~IsFloat(row.Price) THEN Crash /\ date' = date
        ELSE /\ date' = d
             /\ IF Has(expenses, w)
                THEN /\ expenses' = Update(expenses, e, p)
                     /\ seen' = [seen EXCEPT ![e] = [n |-> @.n + 1,
                                                     sum |-> @.sum + p]]
                     /\ ledger' = Put(ledger, e, Get(expenses', e))
                     /\ items' = Append(items, Item(d, Get(expenses, w), e, p))
                     /\ UNCHANGED <<file, fileSeen, alive, cats, pc, expense,
                                    price, matches, choices, nchoices, cat,
                                    nfiles, fresh, tdata, rows>>
                ELSE IF Len(near) > 0
                THEN /\ pc' = "query"
                     /\ expense' = e
                     /\ price' = p
                     /\ matches' = near
                     /\ UNCHANGED <<file, fileSeen, alive, expenses, cats, seen,
                                    items, choices, nchoices, cat, nfiles,
                                    fresh, ledger, tdata, rows>>
                ELSE OpenAdd(e, p)

\* query, lines 121-138, on one response to "did you mean", and what
\* _categorize_expenses does with the answer, lines 56-60
QueryAnswer(s) ==
  /\ pc = "query"
  /\ resp' = s
  /\ UNCHANGED <<date, nrows>>
  /\ IF ~QueryValid(s, Len(matches))
     THEN UNCHANGED <<file, fileSeen, alive, expenses, cats, seen, items, pc,
                      expense, price, matches, choices, nchoices, cat, nfiles,
                      fresh, ledger, tdata, rows>>
     ELSE IF ToInt(s) = Len(matches) + 1
     THEN OpenAdd(expense, price)
     ELSE \* query is the record of matches[choice-1]; update(expense, price)
          \* looks up self.expenses[expense]
          IF ~Has(expenses, expense)
          THEN Crash
          ELSE /\ expenses' = Update(expenses, expense, price)
               /\ seen' = [seen EXCEPT ![expense] = [n |-> @.n + 1,
                                                     sum |-> @.sum + price]]
               /\ ledger' = Put(ledger, expense, Get(expenses', expense))
               /\ items' = Append(items,
                             Item(date, Get(expenses, matches[ToInt(s)]),
                                  expense, price))
               /\ pc' = "rows"
               /\ ClosePrompt
               /\ UNCHANGED <<file, fileSeen, alive, cats, nfiles, fresh,
                              tdata, rows>>

\* add, lines 70-74: one response to the category prompt
CategoryAnswer(s) ==
  /\ pc = "category"
  /\ resp' = s
  /\ LET g == GetInputStep(s, choices, nchoices, cats)
     IN IF g.valid
        THEN /\ cat' = g.choice
             /\ pc' = "subcategory"
             /\ choices' = Sorted(IF g.choice \in DOMAIN cats
                                  THEN cats[g.choice] ELSE <<>>)
             /\ nchoices' = Len(choices')
        ELSE /\ nchoices' = g.n
             /\ UNCHANGED <<cat, pc, choices>>
  /\ UNCHANGED <<file, fileSeen, alive, expenses, cats, seen, items, date,
                 expense, price, matches, nfiles, nrows, fresh, ledger, tdata,
                 rows>>

\* add, lines 74-90: one response to the subcategory prompt; on a valid one
\* the record is stored and _categorize_expenses, lines 58-68, finishes the row
SubcategoryAnswer(s) ==
  /\ pc = "subcategory"
  /\ resp' = s
  /\ UNCHANGED <<file, fileSeen, alive, date, nfiles, nrows, fresh, tdata, rows>>
  /\ LET g == GetInputStep(s, choices, nchoices, cats)
         stored == AddRecord(expenses, expense, cat, g.choice, price)
     IN IF g.valid
        THEN /\ expenses' = stored
             /\ cats' = AddCats(cats, cat, g.choice)
             /\ seen' = [seen EXCEPT ![expense] = [n |-> 1, sum |-> price]]
             /\ ledger' = Put(ledger, Lower(expense),
                              Get(stored, Lower(expense)))
             /\ items' = Append(items,
                           Item(date, Get(stored, Lower(expense)), expense,
                                price))
             /\ pc' = "rows"
             /\ ClosePrompt
        ELSE /\ nchoices' = g.n
             /\ UNCHANGED <<expenses, cats, seen, ledger, items, pc, expense,
                            price, matches, choices, cat>>

\* ------------------------------------------------------ TexGenerator -----
\* the values of the nested mapping: an amount, or a mapping one level down
Leaf(a) == [leaf |-> TRUE, amt |-> a, sub |-> <<>>]

Branch(d) == [leaf |-> FALSE, amt |-> 0, sub |-> d]

SubOf(d, k) == IF Has(d, k) THEN Get(d, k).sub ELSE <<>>

AmtOf(d, k) == IF Has(d, k) THEN Get(d, k).amt ELSE 0

\* _generate_pdf, lines 193-205: one line item added to the mapping
\* date -> category -> subcategory -> expense -> summed price
Insert(data, x) ==
  LET d1 == SubOf(data, x.date)
      d2 == SubOf(d1, x.cat)
      d3 == SubOf(d2, x.subcat)
      e3 == Put(d3, x.expense, Leaf(AmtOf(d3, x.expense) + x.price))
      e2 == Put(d2, x.subcat, Branch(e3))
      e1 == Put(d1, x.cat, Branch(e2))
  IN Put(data, x.date, Branch(e1))

\* _generate_pdf, lines 191-206: the mapping of all line items
RECURSIVE GenData(_, _)
GenData(its, data) ==
  IF its = <<>> THEN data ELSE GenData(Tail(its), Insert(data, Head(its)))

\* the pieces of a row's text
MultiRow(n, key) == [t |-> "multirow", n |-> n, s |-> key]
Amp == [t |-> "amp", n |-> 0, s |-> ""]
Text(key) == [t |-> "text", n |-> 0, s |-> key]
Amount(a) == [t |-> "amount", n |-> a, s |-> ""]
Cline == [t |-> "cline", n |-> 0, s |-> ""]
Range(c) == [t |-> "range", n |-> c, s |-> ""]
Torn == [t |-> "torn", n |-> 0, s |-> ""]

\* _nitems, lines 176-183
RECURSIVE NItemsNodes(_)
NItemsNodes(data) ==
  IF data = <<>> THEN 0
  ELSE (IF Head(data).v.leaf THEN 1 ELSE 1 + NItemsNodes(Head(data).v.sub))
       + NItemsNodes(Tail(data))

RECURSIVE NItems(_)
NItems(data) ==
  IF data = <<>> THEN 0
  ELSE (IF Head(data).v.leaf THEN 1 ELSE NItems(Head(data).v.sub))
       + NItems(Tail(data))

\* rows[k] += toks, k counted from 0 as in the code
AddTo(rws, k, toks) == [rws EXCEPT ![k + 1] = @ \o toks]

\* line 152-153: '& ' added to rows r+i .. r+i+n-1
RECURSIVE AddAmps(_, _, _)
AddAmps(rws, k, n) ==
  IF n = 0 THEN rws ELSE AddAmps(AddTo(rws, k, <<Amp>>), k + 1, n - 1)

\* the number of characters of the marker "{c-5}"
RangeChars(c) == IF c < 10 THEN 5 ELSE 6

\* text[:-5]: the last five characters are cut; that is the whole marker when
\* the text ends in one of five characters, and tears the text otherwise
CutMarker(row) ==
  IF row = <<>> THEN <<>>
  ELSE IF row[Len(row)].t = "range" /\ RangeChars(row[Len(row)].n) = MarkerChars
  THEN SubSeq(row, 1, Len(row) - 1)
  ELSE SubSeq(row, 1, Len(row) - 1) \o <<Torn>>

\* line 158: the column line of the span's last row is rewritten
FixLineFirst(rws, r, i, n, c) ==
  [rws EXCEPT ![r + i + 1] = CutMarker(@) \o <<Range(c)>>]

FixLine(rws, r, i, n, c) ==
  [rws EXCEPT ![r + i + n - 1 + 1] = CutMarker(@) \o <<Range(c)>>]

\* _generate_table, lines 144-167; GenLoop is the for loop from offset i on
RECURSIVE GenerateTable(_, _, _, _)
RECURSIVE GenLoop(_, _, _, _, _)
GenLoop(data, rws, r, c, i) ==
  IF data = <<>> THEN rws
  ELSE LET key == Head(data).k
           value == Head(data).v
       IN IF ~value.leaf
          THEN LET n == NItems(value.sub)
                   r1 == AddTo(rws, r + i, <<MultiRow(n, Title(key))>>)
                   r2 == AddAmps(r1, r + i, n)
                   r3 == GenerateTable(value.sub, r2, r + i, c + 1)
                   r4 == FixLine(r3, r, i, n, c)
               IN GenLoop(Tail(data), r4, r, c, i + n)
          ELSE GenLoop(Tail(data),
                       AddTo(rws, r + i,
                             <<Text(Title(key)), Amp, Amount(value.amt),
                               Cline, Range(c)>>),
                       r, c, i + 1)

GenerateTable(data, rws, r, c) == GenLoop(data, rws, r, c, 0)

\* add_table, lines 78-79: the rows of the table
AddTable(data) ==
  GenerateTable(data, [k \in 1..NItems(data) |-> <<>>], 0, FirstColumn)

\* the line items a table is made of
TableItems ==
  {[date |-> d, cat |-> x[1], subcat |-> x[2], expense |-> x[3], price |-> 150] :
     d \in {"01/02", "01/03"},
     x \in {<<"food", "produce", "apple">>, <<"food", "dairy", "milk">>,
            <<"food", "dairy", "cheese">>, <<"home", "cleaning", "soap">>}}

\* _categorize_expenses ends (line 70) and generate_report goes on:
\* _generate_graphs fails on no line items (line 166 reads indx, which the
\* empty loop of line 136 never set); else _generate_pdf makes the table
EndRows ==
  /\ pc = "rows"
  /\ resp' = ""
  /\ UNCHANGED <<date, nrows>>
  /\ IF items = <<>>
     THEN Crash
     ELSE /\ tdata' = GenData(items, <<>>)
          /\ rows' = AddTable(GenData(items, <<>>))
          /\ pc' = "main"
          /\ UNCHANGED <<file, fileSeen, alive, expenses, cats, seen, items,
                         expense, price, matches, choices, nchoices, cat,
                         nfiles, fresh, ledger>>

Next ==
  \/ MainNextFile
  \/ MainExit
  \/ \E row \in CsvRows : ReadRow(row)
  \/ \E s \in NumInputs : QueryAnswer(s)
  \/ \E s \in Inputs :
       /\ s \in (IF nchoices = 0 THEN TextInputs ELSE NumInputs)
       /\ CategoryAnswer(s)
  \/ \E s \in Inputs :
       /\ s \in (IF nchoices = 0 THEN TextInputs ELSE NumInputs)
       /\ SubcategoryAnswer(s)
  \/ EndRows

Spec == Init /\ [][Next]_vars

\* ------------------------------------------- the table renderer alone ----
\* _generate_pdf, lines 189-208, on the line items of a finished
\* _categorize_expenses
GeneratePdf ==
  /\ pc = "pdf"
  /\ tdata' = GenData(items, <<>>)
  /\ rows' = AddTable(GenData(items, <<>>))
  /\ pc' = "pdf_done"
  /\ UNCHANGED <<file, fileSeen, alive, expenses, cats, seen, items, date,
                 expense, price, matches, choices, nchoices, cat, resp, nfiles,
                 nrows, fresh, ledger>>

TableInit ==
  /\ file = NoFile
  /\ fileSeen = NoneSeen
  /\ fresh = TRUE
  /\ ledger = <<>>
  /\ pc = "pdf"
  /\ alive = TRUE
  /\ expenses = <<>>
  /\ cats = NoCats
  /\ seen = NoneSeen
  /\ items \in UNION {[1..n -> TableItems] : n \in 0..MaxItems}
  /\ date = ""
  /\ expense = ""
  /\ price = 0
  /\ matches = <<>>
  /\ choices = <<>>
  /\ nchoices = 0
  /\ cat = ""
  /\ resp = ""
  /\ nfiles = 1
  /\ nrows = 0
  /\ tdata = <<>>
  /\ rows = <<>>

TableNext == GeneratePdf

TableSpec == TableInit /\ [][TableNext]_vars

\* ================================================== the classification ===
\* what a record's mean and count must be after the prices seen for its name
MeanOf(k) == Get(expenses, k).mean

\* C1: every stored record's npurchases is the number N of prices observed
\* for its name through query -> add / update, and its mean times N is the
\* sum of those prices, in exact arithmetic.
C1_MeanInvariant ==
  \A k \in Keys(expenses) :
    /\ seen[k].n >= 1
    /\ Get(expenses, k).npurchases = seen[k].n
    /\ MeanOf(k).n * seen[k].n = seen[k].sum * MeanOf(k).d

\* two prices, 1.00 and 1.20 in either order, seen for one name of a store
\* that started empty: the mean is 1.10 and the count 2
C1_Witness ==
  /\ fresh
  /\ \E k \in Keys(expenses) :
       /\ seen[k] = [n |-> 2, sum |-> 220]
       /\ Get(expenses, k).npurchases = 2
       /\ MeanOf(k) = [n |-> 110, d |-> 1]

\* the operator picks a near match (not "None of the above") in this step
PicksMatch ==
  /\ pc = "query"
  /\ QueryValid(resp', Len(matches))
  /\ ToInt(resp') # Len(matches) + 1

\* C2: when the operator picks near match m, m's record takes the price
\* (mean (N*mean + price)/(N+1), npurchases N+1), the step raises no error
\* and the keys of the store stay as they were.
C2_FuzzyMatchAccepted ==
  [][PicksMatch =>
       LET m == matches[ToInt(resp')]
           old == Get(expenses, m)
       IN /\ pc' # "error"
          /\ Keys(expenses') = Keys(expenses)
          /\ Get(expenses', m).npurchases = old.npurchases + 1
          /\ Get(expenses', m).mean =
               Frac(old.npurchases * old.mean.n + price * old.mean.d,
                    old.mean.d * (old.npurchases + 1))]_vars

\* C3: from an empty store, no name is a category and a subcategory at once.
C3_Disjoint ==
  fresh => \A c \in DOMAIN cats : \A c2 \in DOMAIN cats : ~InList(c, cats[c2])

\* what the operator's response s stands for at a _get_input prompt
Answer(s, chs, n) == IF n = 0 THEN Lower(s) ELSE chs[ToInt(s)]

\* C4: add runs exactly for an unseen name with no near match or after
\* "None of the above"; when it completes the store has one new key, the
\* expense, with the answered category and subcategory, mean = price and
\* npurchases = 1, and every earlier record is as it was.
C4_NewClassification ==
  [][/\ (pc = "rows" /\ pc' = "category") =>
          /\ ~Has(expenses, expense')
          /\ GetCloseMatches(expense', Keys(expenses)) = <<>>
     /\ (pc = "query" /\ QueryValid(resp', Len(matches))
           /\ ToInt(resp') = Len(matches) + 1) =>
          /\ pc' = "category"
          /\ expense' = expense
          /\ ~Has(expenses, expense)
     /\ (pc = "category" /\ pc' = "subcategory") =>
          /\ cat' = Answer(resp', choices, nchoices)
          /\ expenses' = expenses
     /\ (pc = "subcategory" /\ pc' = "rows") =>
          /\ ~Has(expenses, expense)
          /\ Len(expenses') = Len(expenses) + 1
          /\ Keys(expenses') = Keys(expenses) \cup {expense}
          /\ Get(expenses', expense) =
               [cat |-> cat, subcat |-> Answer(resp', choices, nchoices),
                mean |-> [n |-> price, d |-> 1], npurchases |-> 1]
          /\ \A k \in Keys(expenses) : Get(expenses', k) = Get(expenses, k)
    ]_vars

\* "quinoa" at 1.00 went through add on an empty store
C4_Witness ==
  /\ fresh
  /\ pc = "rows"
  /\ resp = "produce"
  /\ expenses = <<[k |-> "quinoa",
                   v |-> [cat |-> "fruit", subcat |-> "produce",
                          mean |-> [n |-> 100, d |-> 1], npurchases |-> 1]]>>

\* a subcategory is listed once, and under one category only
OneCategoryEach ==
  /\ \A c \in DOMAIN cats : \A i, j \in DOMAIN cats[c] :
       cats[c][i] = cats[c][j] => i = j
  /\ \A c1, c2 \in DOMAIN cats :
       c1 # c2 => \A i \in DOMAIN cats[c1] : ~InList(cats[c1][i], cats[c2])

\* the numbered subcategories are those of the chosen category
OffersOwnSubcats ==
  pc = "subcategory" =>
    /\ {choices[i] : i \in DOMAIN choices} =
         (IF cat \in DOMAIN cats
          THEN {cats[cat][i] : i \in DOMAIN cats[cat]} ELSE {})
    /\ Len(choices) = (IF cat \in DOMAIN cats THEN Len(cats[cat]) ELSE 0)
    /\ nchoices \in {0, Len(choices)}

\* a typed subcategory that another category already lists is turned down
ForeignSubcatRejected ==
  (/\ pc = "subcategory"
   /\ nchoices = 0
   /\ resp' \in TextInputs
   /\ \E c \in DOMAIN cats : c # cat /\ InList(Lower(resp'), cats[c]))
    => (pc' = "subcategory" /\ expenses' = expenses /\ cats' = cats)

\* C5: no subcategory is listed under two categories or twice under one; a
\* typed subcategory that exists under another category is rejected and asked
\* again; the numbered subcategory choices are those of the chosen category.
C5_OneCategoryPerSubcat ==
  /\ [](OneCategoryEach /\ OffersOwnSubcats)
  /\ [][ForeignSubcatRejected]_vars

\* "produce", listed under food, was typed as a subcategory of fruit and
\* turned down
C5_Witness ==
  /\ pc = "subcategory"
  /\ cat = "fruit"
  /\ resp = "produce"
  /\ "food" \in DOMAIN cats
  /\ InList("produce", cats["food"])

\* the rows of this file classified so far, counted for one name
RECURSIVE CountOf(_, _)
CountOf(its, e) ==
  IF its = <<>> THEN 0
  ELSE (IF Head(its).expense = e THEN 1 ELSE 0) + CountOf(Tail(its), e)

\* C8: when the process stops on an error after k rows were classified,
\* cats.json is written and holds the store with those k rows' records and
\* statistics.
C8_FlushOnError ==
  pc = "error" =>
    /\ file.exists
    /\ Load(file) = expenses
    /\ fileSeen = seen
    /\ \A i \in DOMAIN items :
         /\ Has(Load(file), items[i].expense)
         /\ Get(Load(file), items[i].expense).cat = items[i].cat
         /\ Get(Load(file), items[i].expense).subcat = items[i].subcat
         /\ Get(Load(file), items[i].expense).npurchases
              >= CountOf(items, items[i].expense)

\* one row was classified into an empty store, the next row failed
C8_Witness ==
  /\ pc = "error"
  /\ fresh
  /\ Len(items) = 1
  /\ nrows = 2
  /\ file.exists
  /\ Len(file.json) = 1

\* a manager is released in this step: its __del__ runs
Persists == alive /\ (~alive' \/ nfiles' # nfiles)

\* C9 as stated: persisting an empty store writes nothing and creates no file.
C9_SkipWhenEmpty ==
  [][(Persists /\ expenses = <<>>) => file' = file]_vars

\* C9 amended: persisting an empty store writes the file all the same; it
\* then exists and holds the empty mapping.
C9_WritesEmptyMapping ==
  [][(Persists /\ expenses = <<>>) => file' = [exists |-> TRUE, json |-> <<>>]]_vars

\* no file at the start, nothing classified, and the file now exists
C9_Witness ==
  /\ fresh
  /\ pc \in {"error", "exit"}
  /\ expenses = <<>>
  /\ nrows = 0
  /\ file = [exists |-> TRUE, json |-> <<>>]

\* a response the claim calls invalid at the open prompt
InvalidResponse(s) ==
  IF pc = "query" THEN ~IsInt(s) \/ ToInt(s) < 1 \/ ToInt(s) > Len(matches) + 1
  ELSE IF nchoices = 0 THEN Lower(s) \in Names(cats)
  ELSE ~IsInt(s) \/ ToInt(s) < 1 \/ ToInt(s) > nchoices + 1

AtPrompt == pc \in {"query", "category", "subcategory"}

\* an invalid response: no error, nothing stored, the same prompt again
Reprompts ==
  (AtPrompt /\ resp' # "" /\ InvalidResponse(resp')) =>
    /\ pc' = pc
    /\ expenses' = expenses
    /\ cats' = cats
    /\ <<expense', price', matches', choices', nchoices', cat'>> =
         <<expense, price, matches, choices, nchoices, cat>>

\* C10 as stated: an invalid response asks again and changes nothing; every
\* response that is not invalid (a number in 1..n+1, a free name) ends the loop.
C10_LoopEndsOnFirstValid ==
  [][/\ Reprompts
     /\ (AtPrompt /\ resp' # "" /\ ~InvalidResponse(resp')) => pc' # pc]_vars

\* "None of the above" at a _get_input prompt with numbered choices
NoneOfTheAbove(s) ==
  pc \in {"category", "subcategory"} /\ nchoices > 0 /\ IsInt(s)
    /\ ToInt(s) = nchoices + 1

\* C10 amended: as stated, but in _get_input the number n+1 ("None of the
\* above") does not end the loop: it changes nothing stored and the loop goes
\* on with the free-text prompt; the loop ends at the first number in 1..n or
\* free name that collides with no category or subcategory.
C10_LoopEndsOnFirstFinal ==
  [][/\ Reprompts
     /\ (AtPrompt /\ resp' # "" /\ NoneOfTheAbove(resp')) =>
          /\ pc' = pc
          /\ nchoices' = 0
          /\ expenses' = expenses
          /\ cats' = cats
          /\ <<expense', price', matches', choices', cat'>> =
               <<expense, price, matches, choices, cat>>
     /\ (AtPrompt /\ resp' # "" /\ ~InvalidResponse(resp')
           /\ ~NoneOfTheAbove(resp')) => pc' # pc]_vars

\* an out-of-range number was just turned down at "did you mean"
C10_Witness ==
  /\ pc = "query"
  /\ resp = "3"
  /\ Len(matches) = 1

\* ========================================================== the table ====
\* the position in a row of its k-th '& ', 0 for k = 0, one past the end
\* when the row has fewer
AmpPos(row, k) ==
  IF k = 0 THEN 0
  ELSE LET at == {q \in DOMAIN row :
                    /\ row[q].t = "amp"
                    /\ Cardinality({x \in 1..q : row[x].t = "amp"}) = k}
       IN IF at = {} THEN Len(row) + 1 ELSE CHOOSE q \in at : TRUE

\* the text of a row's cell in column c (the first column is FirstColumn)
Cell(row, c) ==
  LET k == c - FirstColumn + 1
  IN SubSeq(row, AmpPos(row, k - 1) + 1, AmpPos(row, k) - 1)

\* the column a row's boundary marker starts at, 0 when the row ends in none
MarkerCol(row) ==
  IF row # <<>> /\ row[Len(row)].t = "range" THEN row[Len(row)].n ELSE 0

IsSpan(cell) == Len(cell) = 1 /\ cell[1].t = "multirow"

\* the span cells of the finished table: <<row, column, length>>
SpanCells ==
  {<<s, c, Cell(rows[s], c)[1].n>> :
     <<s, c>> \in {x \in (DOMAIN rows) \X (FirstColumn..LastColumn) :
                     IsSpan(Cell(rows[x[1]], x[2]))}}

TableDone == pc = "pdf_done"

\* C6: a span cell at column c over rows s..s+n-1 stands on row s with
\* length n; rows s+1..s+n-1 have an empty cell in column c; the marker of
\* row s+n-1 starts at a column <= c and the marker of every row before it
\* in the span at a column > c; the row after the span, if any, starts a
\* new cell at a column <= c.
C6_SpanBoundary ==
  TableDone =>
    \A sp \in SpanCells :
      LET s == sp[1]
          c == sp[2]
          n == sp[3]
      IN /\ n >= 1
         /\ s + n - 1 <= Len(rows)
         /\ \A j \in (s + 1)..(s + n - 1) : Cell(rows[j], c) = <<>>
         /\ MarkerCol(rows[s + n - 1]) >= FirstColumn
         /\ MarkerCol(rows[s + n - 1]) <= c
         /\ \A j \in s..(s + n - 2) : MarkerCol(rows[j]) > c
         /\ s + n <= Len(rows) =>
              \E c2 \in FirstColumn..c : Cell(rows[s + n], c2) # <<>>

\* one date, Food with Produce (apple) and Dairy (milk, cheese)
C6_Witness ==
  /\ TableDone
  /\ Len(rows) = 3
  /\ Cell(rows[1], 2) = <<MultiRow(3, "Food")>>
  /\ Cell(rows[1], 3) = <<MultiRow(1, "Produce")>>
  /\ Cell(rows[2], 2) = <<>>
  /\ Cell(rows[2], 3) = <<MultiRow(2, "Dairy")>>
  /\ Cell(rows[3], 2) = <<>>
  /\ Cell(rows[3], 3) = <<>>
  /\ MarkerCol(rows[1]) = 3
  /\ MarkerCol(rows[2]) = 4
  /\ MarkerCol(rows[3]) = 1

\* the rows a cell takes: its span length, or one row for a leaf's name
Takes(cell) == IF IsSpan(cell) THEN cell[1].n ELSE 1

RECURSIVE SumTakes(_, _)
SumTakes(S, c) ==
  IF S = {} THEN 0
  ELSE LET j == CHOOSE x \in S : TRUE
       IN Takes(Cell(rows[j], c)) + SumTakes(S \ {j}, c)

\* the rows among s..s+n-1 where a cell of column c starts
Starts(s, n, c) == {j \in s..(s + n - 1) : Cell(rows[j], c) # <<>>}

\* the cells of column c tile rows s..s+n-1: the first starts at s, each
\* ends where the next starts or where the range ends, lengths sum to n
Tiles(s, n, c) ==
  /\ n >= 1 => s \in Starts(s, n, c)
  /\ \A j \in Starts(s, n, c) :
       LET m == Takes(Cell(rows[j], c))
       IN /\ j + m <= s + n
          /\ \A x \in (j + 1)..(j + m - 1) : x \notin Starts(s, n, c)
          /\ j + m < s + n => (j + m) \in Starts(s, n, c)
  /\ SumTakes(Starts(s, n, c), c) = n

\* the leaves of the mapping in traversal order, as the text a row shows
RECURSIVE LeavesOf(_)
LeavesOf(data) ==
  IF data = <<>> THEN <<>>
  ELSE (IF Head(data).v.leaf
        THEN <<<<Title(Head(data).k), Head(data).v.amt>>>>
        ELSE LeavesOf(Head(data).v.sub)) \o LeavesOf(Tail(data))

\* the (name, amount) pairs a row's text holds
PairsOf(row) ==
  LET names == {q \in DOMAIN row : row[q].t = "text"}
  IN IF Cardinality(names) = 1
     THEN LET q == CHOOSE x \in names : TRUE
          IN IF q + 2 <= Len(row) /\ row[q + 1].t = "amp"
                  /\ row[q + 2].t = "amount"
                  /\ Cardinality({x \in DOMAIN row : row[x].t = "amount"}) = 1
             THEN <<row[q].s, row[q + 2].n>>
             ELSE <<"", -1>>
     ELSE <<"", -1>>

\* the line items' distinct (date, category, subcategory, expense)
LeafKeys ==
  {<<items[i].date, items[i].cat, items[i].subcat, items[i].expense>> :
     i \in DOMAIN items}

\* C7: the rows taken by a branch's immediate children sum to the branch's
\* span, the children's row ranges follow one another from the branch's
\* first row, and each of the pre-allocated rows gets exactly one leaf's
\* (name, amount), in traversal order.
C7_SpanCount ==
  TableDone =>
    /\ Len(rows) = Cardinality(LeafKeys)
    /\ Tiles(1, Len(rows), FirstColumn)
    /\ \A sp \in SpanCells : Tiles(sp[1], sp[3], sp[2] + 1)
    /\ [j \in DOMAIN rows |-> PairsOf(rows[j])] = LeavesOf(tdata)

\* two dates; the first with Food (Dairy: milk) and Home, the second Food
C7_Witness ==
  /\ TableDone
  /\ Len(rows) = 3
  /\ Cell(rows[1], 1) = <<MultiRow(2, "01/02")>>
  /\ Cell(rows[1], 2) = <<MultiRow(1, "Food")>>
  /\ Cell(rows[2], 2) = <<MultiRow(1, "Home")>>
  /\ Cell(rows[3], 1) = <<MultiRow(1, "01/03")>>
  /\ PairsOf(rows[2]) = <<"Soap", 150>>

\* ============================================== the store across files ===
\* the step binds expo to a new ExpenseReport, whose manager loads cats.json,
\* while the manager bound before holds records that cats.json does not
StaleLoad ==
  /\ alive
  /\ nfiles' # nfiles
  /\ Load(file) # expenses

\* the process is over: main returned, or an exception ended it
Ended == pc \in {"exit", "error"}

\* cats.json holds every name of the ledger with the record of its last
\* add or update
Kept ==
  \A k \in Keys(ledger) :
    /\ Has(Load(file), k)
    /\ Get(Load(file), k) = Get(ledger, k)

\* C11: over the files of one run of main, no manager loads cats.json while
\* an earlier manager still holds changes that are not written, and when the
\* process is over cats.json holds every record that was in it at the start
\* or was created for any of the files, with the statistics of its last
\* update.
C11_AppendOnlyAcrossFiles ==
  /\ [][~StaleLoad]_vars
  /\ [](Ended => Kept)

====
